---- MODULE Spec2Model ----
(***************************************************************************)
(* The chat widget of ecommerce-support (the id-set variant,               *)
(* src/unnamed/part_000): sendMessage, pollMessages, checkConnection and   *)
(* the typing indicator, as a state machine whose steps are the pieces of  *)
(* the async functions between two awaits.  The backend (/chat,            *)
(* /chat/history, /health) is the environment.  userLogin and the bearer   *)
(* token only decorate the requests and are left out.                      *)
(***************************************************************************)
EXTENDS Integers, Sequences, FiniteSets, TLC

\* ------------------------------------------------------------------ bounds
MaxSends  == 2      \* activations of sendMessage that pass validation
MaxExtra  == 1      \* history entries the backend adds outside a /chat turn
MaxProbes == 4      \* activations of checkConnection

Sends == 1..MaxSends
NoId  == 0

\* Strings are sequences of characters; " " is white space.
Texts  == { <<>>, <<" ">>, <<"a">>, <<" ", "a", " ">> }
Emails == { <<" ">>, <<" ", "u">> }

VARIABLES
    emailInput,           \* emailInput.value
    chatDisplay,          \* the children of #chat-display, in document order
    lastMessageCount,
    isPolling,
    displayedMessageIds,
    sends,                \* the activations of sendMessage
    histFetches,          \* the /chat/history requests in flight
    history,              \* the backend's conversation history
    polledLen,            \* ghost: longest history a poll has gone through
    statusIndicator,      \* class of #connection-status
    probes,               \* the /health requests in flight
    started,              \* ghost: number of checkConnection activations
    completed             \* ghost: the probes that completed, in that order

syncVars == <<emailInput, chatDisplay, lastMessageCount, isPolling,
              displayedMessageIds, sends, histFetches, history, polledLen>>
connVars == <<statusIndicator, probes, started, completed>>
vars     == <<syncVars, connVars>>

\* ----------------------------------------------------------------- strings
IsSpace(c) == c = " "

RECURSIVE TrimStart(_)
TrimStart(s) ==
    IF s /= <<>> /\ IsSpace(Head(s)) THEN TrimStart(Tail(s)) ELSE s

RECURSIVE TrimEnd(_)
TrimEnd(s) ==
    IF s /= <<>> /\ IsSpace(s[Len(s)]) THEN TrimEnd(SubSeq(s, 1, Len(s) - 1)) ELSE s

\* String.prototype.trim
Trim(s) == TrimEnd(TrimStart(s))

\* !message, !email: the empty string is falsy
Falsy(s) == s = <<>>

\* -------------------------------------------------------------------- DOM
\* A child of #chat-display.  cls is the class addMessage / addTypingIndicator
\* gives it; kind and ref say where it came from: the echo, the synthetic
\* failure entries and the direct reply of send ref, the typing placeholder
\* with element id ref, the history entry with server id ref.
Node(cls, kind, ref) == [cls |-> cls, kind |-> kind, ref |-> ref]

\* chatDisplay.appendChild(msgDiv)
addMessage_Prepending(display, sender, kind, ref) ==
    <<Node(sender, kind, ref)>> \o display
addMessage(display, sender, kind, ref) == Append(display, Node(sender, kind, ref))

\* 'typing-' + Date.now()
TypingId(t) == t

addTypingIndicator(display, id) == Append(display, Node("assistant", "typing", id))

IsElement(n, id) == n.kind = "typing" /\ n.ref = id

\* document.getElementById: the first element in document order, 0 for null
getElementById(display, id) ==
    LET hits == { i \in 1..Len(display) : IsElement(display[i], id) }
    IN  IF hits = {} THEN 0 ELSE CHOOSE i \in hits : \A j \in hits : i <= j

RemoveAt(seq, i) == SubSeq(seq, 1, i - 1) \o SubSeq(seq, i + 1, Len(seq))

removeTypingIndicator(display, id) ==
    LET el == getElementById(display, id)
    IN  IF el /= 0 THEN RemoveAt(display, el) ELSE display

\* The transcript: the message entries, without the typing placeholders.
IsMessage(n) == n.kind /= "typing"
Transcript == SelectSeq(chatDisplay, IsMessage)

\* ---------------------------------------------------------------- backend
\* An entry of GET /chat/history: {id, role, content}.  content is "str" for
\* a string and "nil" for null; turn (ghost) is the send that produced the
\* entry, 0 for an entry the backend added by itself.
Entry(id, role, content, turn) ==
    [id |-> id, role |-> role, content |-> content, turn |-> turn]

ExtraEntries == { <<"human", "str">>, <<"tool", "str">>, <<"assistant", "nil">> }

NumExtra == Cardinality({ i \in 1..Len(history) : history[i].turn = 0 })

\* The ids the backend gave to the entries of send s (0 when it has none).
IdOf(s, role) ==
    LET hits == { i \in 1..Len(history) :
                    history[i].turn = s /\ history[i].role = role }
    IN  IF hits = {} THEN NoId ELSE history[CHOOSE i \in hits : TRUE].id

\* ------------------------------------------------------------ pollMessages
\* if (isPolling) return;
PollBusy_Unguarded(polling) == FALSE
PollBusy(polling) == polling

\* const email = emailInput.value.trim(); if (!email) return;
NoRecipient_Untrimmed(value) == Falsy(value)
NoRecipient(value) == Falsy(Trim(value))

\* if (!displayedMessageIds.has(m.id))
IsNew_NoLedger(seen, m) == TRUE
IsNew(seen, m) == m.id \notin seen

\* if (m.role === 'assistant' || m.role === 'human')
RendersRole_Any(role) == TRUE
RendersRole_AssistantOnly(role) == role = "assistant"
RendersRole(role) == role = "assistant" \/ role = "human"

\* displayedMessageIds.add(m.id)
MarkSeen_Forgets(seen, m) == seen
MarkSeen(seen, m) == seen \cup {m.id}

\* text.replace(/\n/g, '<br>') in addMessage throws on a content that is no string
Throws(m) == m.content /= "str"

\* messages.forEach(m => { ... }): the display and the seen ids after entry
\* i, i+1, ...; threw when addMessage threw and ended the loop.
RECURSIVE ForEach(_, _, _, _)
ForEach(messages, i, display, seen) ==
    IF i > Len(messages)
    THEN [display |-> display, seen |-> seen, threw |-> FALSE]
    ELSE LET m == messages[i] IN
         IF IsNew(seen, m) /\ RendersRole(m.role)
         THEN IF Throws(m)
              THEN [display |-> display, seen |-> seen, threw |-> TRUE]
              ELSE ForEach(messages, i + 1,
                           addMessage(display, "assistant", "polled", m.id),
                           MarkSeen(seen, m))
         ELSE ForEach(messages, i + 1, display, seen)

\* finally { isPolling = false; }
Release_NotOnThrow(polling, threw) == IF threw THEN polling ELSE FALSE
Release(polling, threw) == FALSE

\* A /chat/history request in flight: who called pollMessages (0 for the
\* timer, s for send s) and snap, the length of the history the backend
\* answered with (-1 while it has not answered).
Timer == 0
Fetch(owner) == [owner |-> owner, snap |-> -1]

\* The two early returns of pollMessages.
PollRefuses == PollBusy(isPolling) \/ NoRecipient(emailInput)

\* pollMessages() up to its first await, called by c.
pollMessages(c) ==
    IF PollRefuses
    THEN UNCHANGED <<isPolling, histFetches>>
    ELSE /\ isPolling' = TRUE
         /\ histFetches' = Append(histFetches, Fetch(c))

\* setInterval(pollMessages, 3000)
TimerPoll ==
    /\ pollMessages(Timer)
    /\ UNCHANGED <<emailInput, chatDisplay, lastMessageCount,
                   displayedMessageIds, sends, history, polledLen>>
    /\ UNCHANGED connVars

Max(a, b) == IF a >= b THEN a ELSE b

\* pollMessages() from the await of fetch / response.json() to its end, and
\* the rest of sendMessage when it was awaiting this poll.
\*   "ok"     a 2xx answer whose body is the history
\*   "notok"  a non-2xx answer
\*   "throw"  fetch rejects, or the body is not a JSON array
PollOutcomes == {"ok", "notok", "throw"}

PollResume(i, outcome) ==
    /\ i \in 1..Len(histFetches)
    /\ outcome = "ok" => histFetches[i].snap >= 0
    /\ LET f == histFetches[i]
           r == IF outcome = "ok"
                THEN ForEach(SubSeq(history, 1, f.snap), 1,
                             chatDisplay, displayedMessageIds)
                ELSE [display |-> chatDisplay, seen |-> displayedMessageIds,
                      threw |-> outcome = "throw"]
           through == outcome = "ok" /\ ~r.threw
       IN  /\ chatDisplay' = r.display
           /\ displayedMessageIds' = r.seen
           /\ lastMessageCount' = IF through THEN f.snap ELSE lastMessageCount
           /\ polledLen' = IF through THEN Max(polledLen, f.snap) ELSE polledLen
           /\ isPolling' = Release(isPolling, r.threw)
           /\ histFetches' = RemoveAt(histFetches, i)
           /\ sends' = IF f.owner \in Sends
                       THEN [sends EXCEPT ![f.owner].pc = "done"]
                       ELSE sends
    /\ UNCHANGED <<emailInput, history>>
    /\ UNCHANGED connVars

\* ------------------------------------------------------------- sendMessage
\* An activation of sendMessage.
\*   pc       "idle" not started, "chat" awaiting /chat, "poll" awaiting the
\*            poll it triggered, "done"
\*   tok      typingId
\*   served   the backend has recorded the turn and answers with its reply
\*   outcome  (ghost) the branch the /chat answer took: "reply", "soft", "catch"
\*   removes  (ghost) calls of removeTypingIndicator(typingId)
\*   reqs     (ghost) /chat requests issued
\*   trig     (ghost) the pollMessages call: "none", "refused", "started"
IdleSend == [pc |-> "idle", tok |-> 0, served |-> FALSE, outcome |-> "none",
             removes |-> 0, reqs |-> 0, trig |-> "none"]

\* Date.now() when send s starts.  The clock never goes back: it reads what
\* it read for the send before (the same millisecond) or something later,
\* written s.
DateNow(s) == IF s = 1 THEN {s} ELSE {sends[s - 1].tok, s}

\* if (!message || !email) return;
SendRefuses_Untrimmed(text, value) == Falsy(text) \/ Falsy(value)
SendRefuses(text, value) == Falsy(Trim(text)) \/ Falsy(Trim(value))

\* addMessage(message, 'user'): the local echo
Echo_Missing(display, s) == display
Echo(display, s) == addMessage(display, "user", "echo", s)

\* sendMessage() up to its await of fetch('/chat'), with userInput.value = text
SendMessage(text) ==
    /\ IF SendRefuses(text, emailInput)
       THEN UNCHANGED <<chatDisplay, lastMessageCount, sends>>
       ELSE \E s \in Sends : \E t \in DateNow(s) :
              /\ sends[s].pc = "idle"
              /\ \A r \in Sends : r < s => sends[r].pc /= "idle"
              /\ chatDisplay' = addTypingIndicator(Echo(chatDisplay, s),
                                                    TypingId(t))
              /\ lastMessageCount' = lastMessageCount + 1
              /\ sends' = [sends EXCEPT ![s] =
                              [IdleSend EXCEPT !.pc = "chat",
                                               !.tok = TypingId(t),
                                               !.reqs = 1]]
    /\ UNCHANGED <<emailInput, isPolling, displayedMessageIds,
                   histFetches, history, polledLen>>
    /\ UNCHANGED connVars

\* sendMessage() from the await of fetch('/chat') / response.json() on.
\*   "reply"      {response: <non-empty>}
\*   "empty"      a JSON body whose response field is empty or absent
\*   "null"       the JSON body null
\*   "malformed"  a body response.json() rejects
\*   "reject"     fetch rejects
ChatOutcomes == {"reply", "empty", "null", "malformed", "reject"}

\* if (data.response) { await pollMessages(); }: the reply itself is not
\* rendered here, the poll is left to fetch it
OnReply_Rendering(display, s) == addMessage(display, "assistant", "direct", s)
OnReply(display, s) == display

\* else { addMessage("Sorry, I encountered an error. Please try again.", 'assistant'); }
SoftFail_Silent(display, s) == display
SoftFail(display, s) == addMessage(display, "assistant", "softfail", s)

\* catch (error) { removeTypingIndicator(typingId); addMessage("Connection error. ...", 'assistant'); }
Catch(display, tok, s) ==
    addMessage(removeTypingIndicator(display, tok), "assistant", "connerr", s)

ChatResume(s, outcome) ==
    /\ sends[s].pc = "chat"
    /\ outcome = "reply" => sends[s].served
    /\ outcome \in {"empty", "null"} => ~sends[s].served
    /\ LET tok == sends[s].tok
           removed == removeTypingIndicator(chatDisplay, tok)
       IN  CASE outcome = "reply" ->
                  /\ chatDisplay' = OnReply(removed, s)
                  /\ pollMessages(s)
                  /\ sends' = [sends EXCEPT
                        ![s].pc = IF PollRefuses THEN "done" ELSE "poll",
                        ![s].trig = IF PollRefuses THEN "refused" ELSE "started",
                        ![s].outcome = outcome,
                        ![s].removes = @ + 1]
            [] outcome = "empty" ->
                  /\ chatDisplay' = SoftFail(removed, s)
                  /\ sends' = [sends EXCEPT ![s].pc = "done",
                                            ![s].outcome = "soft",
                                            ![s].removes = @ + 1]
                  /\ UNCHANGED <<isPolling, histFetches>>
            [] outcome = "null" ->
                  \* removeTypingIndicator, then data.response throws a
                  \* TypeError and the catch block runs
                  /\ chatDisplay' = Catch(removed, tok, s)
                  /\ sends' = [sends EXCEPT ![s].pc = "done",
                                            ![s].outcome = "catch",
                                            ![s].removes = @ + 2]
                  /\ UNCHANGED <<isPolling, histFetches>>
            [] outcome \in {"malformed", "reject"} ->
                  /\ chatDisplay' = Catch(chatDisplay, tok, s)
                  /\ sends' = [sends EXCEPT ![s].pc = "done",
                                            ![s].outcome = "catch",
                                            ![s].removes = @ + 1]
                  /\ UNCHANGED <<isPolling, histFetches>>
    /\ UNCHANGED <<emailInput, lastMessageCount, displayedMessageIds,
                   history, polledLen>>
    /\ UNCHANGED connVars

\* --------------------------------------------------------- checkConnection
\* An activation of checkConnection is known by its number in the order of
\* the calls.  statusText.textContent is set together with the class and is
\* not modelled apart from it.

\* checkConnection() up to its await of fetch('/health'): the call at load
\* time is in Init, the others come from setInterval(checkConnection, 5000).
CheckConnection ==
    /\ started < MaxProbes
    /\ started' = started + 1
    /\ probes' = probes \cup {started + 1}
    /\ UNCHANGED <<statusIndicator, completed>>
    /\ UNCHANGED syncVars

\*   "ok"      a 2xx answer
\*   "notok"   any other status: throw new Error('Not OK'), caught below
\*   "reject"  fetch rejects
ProbeOutcomes == {"ok", "notok", "reject"}

\* The class the try / catch of checkConnection leaves on the indicator.
ProbeStatus_KeepOnNotOk(current, outcome) ==
    IF outcome = "ok" THEN "online"
    ELSE IF outcome = "notok" THEN current ELSE "offline"
ProbeStatus(current, outcome) == IF outcome = "ok" THEN "online" ELSE "offline"

\* checkConnection() from the await of fetch('/health') on.
ProbeResume_Reporting(n, outcome) ==
    /\ n \in probes
    /\ statusIndicator' = ProbeStatus(statusIndicator, outcome)
    /\ probes' = probes \ {n}
    /\ completed' = Append(completed, [n |-> n, ok |-> outcome = "ok"])
    /\ chatDisplay' = IF outcome = "ok" THEN chatDisplay
                      ELSE addMessage(chatDisplay, "assistant", "connerr", 0)
    /\ UNCHANGED started
    /\ UNCHANGED <<emailInput, lastMessageCount, isPolling,
                   displayedMessageIds, sends, histFetches, history, polledLen>>
ProbeResume(n, outcome) ==
    /\ n \in probes
    /\ statusIndicator' = ProbeStatus(statusIndicator, outcome)
    /\ probes' = probes \ {n}
    /\ completed' = Append(completed, [n |-> n, ok |-> outcome = "ok"])
    /\ UNCHANGED started
    /\ UNCHANGED syncVars

\* ------------------------------------------------------------- environment
\* The backend handles POST /chat of send s: it records the user entry and
\* the assistant's reply.
ServerChat(s) ==
    /\ sends[s].pc = "chat"
    /\ ~sends[s].served
    /\ history' = history \o << Entry(Len(history) + 1, "user", "str", s),
                                Entry(Len(history) + 2, "assistant", "str", s) >>
    /\ sends' = [sends EXCEPT ![s].served = TRUE]
    /\ UNCHANGED <<emailInput, chatDisplay, lastMessageCount, isPolling,
                   displayedMessageIds, histFetches, polledLen>>
    /\ UNCHANGED connVars

\* The backend adds an entry by itself (a human agent, a tool call).
ServerAppend(e) ==
    /\ NumExtra < MaxExtra
    /\ history' = Append(history, Entry(Len(history) + 1, e[1], e[2], 0))
    /\ UNCHANGED <<emailInput, chatDisplay, lastMessageCount, isPolling,
                   displayedMessageIds, sends, histFetches, polledLen>>
    /\ UNCHANGED connVars

\* The backend answers GET /chat/history with the history as it is now.
ServeHistory(i) ==
    /\ i \in 1..Len(histFetches)
    /\ histFetches[i].snap = -1
    /\ histFetches' = [histFetches EXCEPT ![i].snap = Len(history)]
    /\ UNCHANGED <<emailInput, chatDisplay, lastMessageCount, isPolling,
                   displayedMessageIds, sends, history, polledLen>>
    /\ UNCHANGED connVars

\* The user edits the email field.
SetEmail(value) ==
    /\ value /= emailInput
    /\ emailInput' = value
    /\ UNCHANGED <<chatDisplay, lastMessageCount, isPolling,
                   displayedMessageIds, sends, histFetches, history, polledLen>>
    /\ UNCHANGED connVars

\* ------------------------------------------- the widget of frontend/app.js
\* The widget of src/frontend/app.js has no displayedMessageIds: it tells the
\* new entries of the history by their number, lastMessageCount.  Its
\* pollMessages up to the fetch and its sendMessage up to the fetch are those
\* above, TimerPoll and SendMessage.

\* newMsgs.forEach(m => { ... }): the display after entry i, i+1, ...
RECURSIVE ForEachNew(_, _, _)
ForEachNew(newMsgs, i, display) ==
    IF i > Len(newMsgs) THEN [display |-> display, threw |-> FALSE]
    ELSE LET m == newMsgs[i]
         IN  IF RendersRole(m.role)
             THEN IF Throws(m)
                  THEN [display |-> display, threw |-> TRUE]
                  ELSE ForEachNew(newMsgs, i + 1,
                                  addMessage(display, "assistant", "polled", m.id))
             ELSE ForEachNew(newMsgs, i + 1, display)

\* messages.slice(lastMessageCount)
Slice(messages, count) == SubSeq(messages, count + 1, Len(messages))

\* A poll that throws in addMessage keeps lastMessageCount and the next one
\* renders the same entries again, without end: the display is explored up
\* to MaxShown nodes.
MaxShown == 7

\* pollMessages() of app.js from the await of fetch / response.json() on.
PollResumeCount(i, outcome) ==
    /\ i \in 1..Len(histFetches)
    /\ outcome = "ok" => histFetches[i].snap >= 0
    /\ LET f == histFetches[i]
           messages == SubSeq(history, 1, f.snap)
           grew == outcome = "ok" /\ Len(messages) > lastMessageCount
           r == IF grew
                THEN ForEachNew(Slice(messages, lastMessageCount), 1, chatDisplay)
                ELSE [display |-> chatDisplay, threw |-> outcome = "throw"]
           through == grew /\ ~r.threw
       IN  /\ Len(r.display) <= MaxShown
           /\ chatDisplay' = r.display
           /\ lastMessageCount' = IF through THEN Len(messages)
                                  ELSE lastMessageCount
           /\ polledLen' = IF through THEN Max(polledLen, f.snap) ELSE polledLen
           /\ isPolling' = Release(isPolling, r.threw)
           /\ histFetches' = RemoveAt(histFetches, i)
    /\ UNCHANGED <<emailInput, displayedMessageIds, sends, history>>
    /\ UNCHANGED connVars

\* if (data.response) { addMessage(data.response, 'assistant'); lastMessageCount++; }
DirectReply(display, s) == addMessage(display, "assistant", "direct", s)

\* sendMessage() of app.js from the await of fetch('/chat') / response.json()
\* on.
ChatResumeCount(s, outcome) ==
    /\ sends[s].pc = "chat"
    /\ outcome = "reply" => sends[s].served
    /\ outcome \in {"empty", "null"} => ~sends[s].served
    /\ LET tok == sends[s].tok
           removed == removeTypingIndicator(chatDisplay, tok)
       IN  CASE outcome = "reply" ->
                  /\ chatDisplay' = DirectReply(removed, s)
                  /\ lastMessageCount' = lastMessageCount + 1
                  /\ sends' = [sends EXCEPT ![s].pc = "done",
                                            ![s].outcome = outcome,
                                            ![s].removes = @ + 1]
            [] outcome = "empty" ->
                  /\ chatDisplay' = SoftFail(removed, s)
                  /\ sends' = [sends EXCEPT ![s].pc = "done",
                                            ![s].outcome = "soft",
                                            ![s].removes = @ + 1]
                  /\ UNCHANGED lastMessageCount
            [] outcome = "null" ->
                  /\ chatDisplay' = Catch(removed, tok, s)
                  /\ sends' = [sends EXCEPT ![s].pc = "done",
                                            ![s].outcome = "catch",
                                            ![s].removes = @ + 2]
                  /\ UNCHANGED lastMessageCount
            [] outcome \in {"malformed", "reject"} ->
                  /\ chatDisplay' = Catch(chatDisplay, tok, s)
                  /\ sends' = [sends EXCEPT ![s].pc = "done",
                                            ![s].outcome = "catch",
                                            ![s].removes = @ + 1]
                  /\ UNCHANGED lastMessageCount
    /\ UNCHANGED <<emailInput, isPolling, displayedMessageIds, histFetches,
                   history, polledLen>>
    /\ UNCHANGED connVars

\* ----------------------------------------------------------- specification
Init ==
    /\ emailInput = <<>>
    /\ chatDisplay = <<>>
    /\ lastMessageCount = 0
    /\ isPolling = FALSE
    /\ displayedMessageIds = {}
    /\ sends = [s \in Sends |-> IdleSend]
    /\ histFetches = <<>>
    /\ history = <<>>
    /\ polledLen = 0
    /\ statusIndicator = "unknown"
    /\ probes = {1}
    /\ started = 1
    /\ completed = <<>>

Next ==
    \/ TimerPoll
    \/ \E i \in 1..Len(histFetches), o \in PollOutcomes : PollResume(i, o)
    \/ \E t \in Texts : SendMessage(t)
    \/ \E s \in Sends, o \in ChatOutcomes : ChatResume(s, o)
    \/ \E s \in Sends : ServerChat(s)
    \/ \E e \in ExtraEntries : ServerAppend(e)
    \/ \E i \in 1..Len(histFetches) : ServeHistory(i)
    \/ \E v \in Emails : SetEmail(v)

\* The widget's message side: sendMessage, pollMessages and the backend's
\* history.  It shares no variable with checkConnection, whose runs are
\* explored by SpecConn.
Spec == Init /\ [][Next]_vars

\* Every /chat/history request resolves or rejects.
PollResumes == \E i \in 1..Len(histFetches), o \in PollOutcomes : PollResume(i, o)
SpecFair == Spec /\ WF_vars(PollResumes)

NextConn ==
    \/ CheckConnection
    \/ \E n \in probes, o \in ProbeOutcomes : ProbeResume(n, o)

SpecConn == Init /\ [][NextConn]_vars

\* The whole widget: the message side together with checkConnection.  The
\* probes are explored here up to MaxOverlaid of them, one after the other,
\* and the history holds the turns of the sends only; SpecConn explores the
\* overlapping probes and Spec the entries the backend adds by itself.
MaxOverlaid == 2

NextAll ==
    \/ TimerPoll
    \/ \E i \in 1..Len(histFetches), o \in PollOutcomes : PollResume(i, o)
    \/ \E t \in Texts : SendMessage(t)
    \/ \E s \in Sends, o \in ChatOutcomes : ChatResume(s, o)
    \/ \E s \in Sends : ServerChat(s)
    \/ \E i \in 1..Len(histFetches) : ServeHistory(i)
    \/ \E v \in Emails : SetEmail(v)
    \/ CheckConnection /\ probes = {} /\ started < MaxOverlaid
    \/ \E n \in probes, o \in ProbeOutcomes : ProbeResume(n, o)

SpecAll == Init /\ [][NextAll]_vars

NextCount ==
    \/ TimerPoll
    \/ \E i \in 1..Len(histFetches), o \in PollOutcomes : PollResumeCount(i, o)
    \/ \E t \in Texts : SendMessage(t)
    \/ \E s \in Sends, o \in ChatOutcomes : ChatResumeCount(s, o)
    \/ \E s \in Sends : ServerChat(s)
    \/ \E e \in ExtraEntries : ServerAppend(e)
    \/ \E i \in 1..Len(histFetches) : ServeHistory(i)
    \/ \E v \in Emails : SetEmail(v)

\* The message side of the widget of src/frontend/app.js.
SpecCount == Init /\ [][NextCount]_vars

\* ================================================================== claims
Polled(display) == { i \in 1..Len(display) : display[i].kind = "polled" }

\* C1: an entry with a given server id is appended to the transcript at most
\* once, however many poll cycles return it: no two entries rendered from
\* the history share a server-assigned id.
C1_NoSharedServerId ==
    \A i, j \in Polled(chatDisplay) :
        chatDisplay[i].ref = chatDisplay[j].ref => i = j

\* An entry is on display and the backend has answered a further poll with a
\* history that holds it again.
C1_Witness ==
    \E i \in Polled(chatDisplay) : \E k \in 1..Len(histFetches) :
        /\ histFetches[k].snap >= chatDisplay[i].ref
        /\ polledLen >= chatDisplay[i].ref

\* C2 (as claimed): once a send that got a non-empty reply has returned,
\* that is once the poll it triggered has returned, the turn's assistant
\* entry is in the transcript.
C2_ReplyShownWhenSendReturns ==
    \A s \in Sends :
        (sends[s].pc = "done" /\ sends[s].outcome = "reply") =>
            \E i \in Polled(chatDisplay) :
                chatDisplay[i].ref = IdOf(s, "assistant")

\* C3: at most one history fetch is in flight, and isPolling is true exactly
\* while one is.
C3_PollMutualExclusion ==
    /\ Len(histFetches) <= 1
    /\ isPolling <=> Len(histFetches) = 1

\* A poll triggered by one send is in flight while another send awaits the
\* reply the backend has already recorded.
C3_Witness ==
    \E s, r \in Sends :
        /\ s /= r
        /\ sends[s].pc = "poll"
        /\ sends[r].pc = "chat" /\ sends[r].served
        /\ isPolling

\* C4: a call of pollMessages made while a poll is in flight, or with an
\* email that is empty after trimming, issues no request and leaves
\* isPolling, the seen ids, lastMessageCount and the transcript as they were,
\* whether the timer made the call or a send did after its reply arrived.
C4_RefusedPollChangesNothing ==
    [][ (isPolling \/ Trim(emailInput) = <<>>) =>
          /\ TimerPoll =>
                UNCHANGED <<isPolling, histFetches, displayedMessageIds,
                            lastMessageCount, chatDisplay>>
          /\ \A s \in Sends : ChatResume(s, "reply") =>
                /\ UNCHANGED <<isPolling, histFetches, displayedMessageIds,
                               lastMessageCount>>
                /\ Transcript' = Transcript ]_vars

\* A send's call of pollMessages was refused and the poll that was in flight
\* still holds the guard.
C4_Witness ==
    \E s \in Sends :
        /\ sends[s].trig = "refused"
        /\ isPolling /\ Len(histFetches) = 1
        /\ Trim(emailInput) /= <<>>

\* C5: every poll that takes the guard gives it back, whatever the fetch and
\* the rendering of its entries do, provided the fetch resolves or rejects.
C5_GuardReleased == isPolling ~> ~isPolling

\* The guard is free again after a poll whose rendering threw: an entry is
\* on display though no poll has gone through a history that long.
C5_Witness ==
    /\ ~isPolling
    /\ \E i \in Polled(chatDisplay) : chatDisplay[i].ref > polledLen

\* The assistant entries the transcript holds for the turn of send s: the
\* history's assistant entry of the turn, and the reply rendered directly.
AssistantEntries(s) ==
    { i \in 1..Len(chatDisplay) :
        \/ chatDisplay[i].kind = "polled" /\ chatDisplay[i].ref = IdOf(s, "assistant")
        \/ chatDisplay[i].kind = "direct" /\ chatDisplay[i].ref = s }

\* C6: for a send that got a non-empty reply the transcript never holds two
\* assistant entries of the turn, never an entry rendered from the turn's
\* user entry, and exactly one assistant entry once a poll has gone through a
\* history that holds the turn.
C6_OneAssistantEntryPerTurn ==
    \A s \in Sends :
        sends[s].outcome = "reply" =>
            /\ Cardinality(AssistantEntries(s)) <= 1
            /\ \A i \in Polled(chatDisplay) : chatDisplay[i].ref /= IdOf(s, "user")
            /\ polledLen >= IdOf(s, "assistant") =>
                  Cardinality(AssistantEntries(s)) = 1

\* A send has returned after the poll it started, a later poll has gone
\* through the history again, and the turn has its one assistant entry.
C6_Witness ==
    \E s \in Sends :
        /\ sends[s].pc = "done" /\ sends[s].trig = "started"
        /\ polledLen > IdOf(s, "assistant")
        /\ Cardinality(AssistantEntries(s)) = 1

Typing(display, id) == { i \in 1..Len(display) : IsElement(display[i], id) }

Resolved(s) == sends[s].pc \in {"poll", "done"}

\* C7 (as claimed): once /chat has resolved, removeTypingIndicator has been
\* called with the send's token exactly once, on every path, and no
\* placeholder is left of the sends that have all resolved.
C7_TypingRemovedExactlyOnce ==
    \A s \in Sends :
        Resolved(s) =>
            /\ sends[s].removes = 1
            /\ (\A r \in Sends : sends[r].pc = "chat" => sends[r].tok /= sends[s].tok)
                  => Typing(chatDisplay, sends[s].tok) = {}

\* The completed probe that was started last.
Freshest ==
    CHOOSE k \in 1..Len(completed) :
        \A j \in 1..Len(completed) : completed[j].n <= completed[k].n

StatusAgrees(ok) ==
    /\ statusIndicator = "online" <=> ok
    /\ statusIndicator = "offline" <=> ~ok

\* C8 (as claimed): after each run of checkConnection the status is online
\* iff the probe that was started last, among those that completed,
\* succeeded.
C8_StatusOfLastStartedProbe ==
    completed /= <<>> => StatusAgrees(completed[Freshest].ok)

\* C8 (amended): after each run of checkConnection the status is online iff
\* the probe that completed last succeeded, and offline otherwise.
C8_StatusOfLastCompletedProbe ==
    completed /= <<>> => StatusAgrees(completed[Len(completed)].ok)

\* Two probes overlapped and the older one, with the other result, completed
\* after the newer one.
C8_Witness ==
    /\ Len(completed) >= 2
    /\ LET last == completed[Len(completed)]
           prev == completed[Len(completed) - 1]
       IN  last.n < prev.n /\ last.ok /= prev.ok

Synthetic(s) ==
    { i \in 1..Len(chatDisplay) :
        chatDisplay[i].kind \in {"softfail", "connerr"} /\ chatDisplay[i].ref = s }

Echoes(s) ==
    { i \in 1..Len(chatDisplay) :
        chatDisplay[i].kind = "echo" /\ chatDisplay[i].ref = s }

\* C9: a send whose /chat request failed, or answered without a response
\* text, has exactly one synthetic failure entry of the assistant class, has
\* issued one request and triggered no poll; and at no later time does the
\* transcript hold a second echo of it or an entry rendered from the user
\* entry the backend may have recorded for it.
C9_SendFailure ==
    \A s \in Sends :
        sends[s].outcome \in {"soft", "catch"} =>
            /\ sends[s].pc = "done"
            /\ Cardinality(Synthetic(s)) = 1
            /\ \A i \in Synthetic(s) : chatDisplay[i].cls = "assistant"
            /\ sends[s].reqs = 1
            /\ sends[s].trig = "none"
            /\ \A f \in 1..Len(histFetches) : histFetches[f].owner /= s
            /\ Cardinality(Echoes(s)) = 1
            /\ \A i \in Polled(chatDisplay) : chatDisplay[i].ref /= IdOf(s, "user")

\* One send failed in transport after the backend had recorded its turn and
\* a later poll has gone through the history that holds the turn; another
\* send failed softly.
C9_Witness ==
    \E s, r \in Sends :
        /\ sends[s].outcome = "catch" /\ sends[s].served
        /\ polledLen >= IdOf(s, "assistant")
        /\ sends[r].outcome = "soft"

\* C10: sendMessage called with a text or an email that is empty after
\* trimming appends nothing, shows no typing indicator, issues no /chat
\* request, triggers no poll and leaves lastMessageCount, the seen ids and
\* isPolling as they were.
C10_InvalidSendChangesNothing ==
    [][ \A t \in Texts :
          (SendMessage(t) /\ (Trim(t) = <<>> \/ Trim(emailInput) = <<>>)) =>
              UNCHANGED <<chatDisplay, sends, histFetches, lastMessageCount,
                          displayedMessageIds, isPolling>> ]_vars

\* The email holds white space only while a send is in flight and a poll
\* holds the guard: sendMessage returns at its guard for any text.
C10_Witness ==
    /\ emailInput /= <<>> /\ Trim(emailInput) = <<>>
    /\ \E s \in Sends : sends[s].pc = "chat"
    /\ \E s \in Sends : sends[s].pc = "idle"
    /\ isPolling

Rendered(display) == { display[i].ref : i \in Polled(display) }

\* C11: a poll whose fetch rejects, answers with a non-2xx status or with a
\* body that cannot be decoded takes nothing from the seen ids or the
\* transcript, adds no error entry for its caller and releases the guard;
\* and once a poll has gone through a history, every assistant and human
\* entry of that history is among the seen ids and on display.
C11_PollFailureSwallowed ==
    /\ [][ \A i \in 1..Len(histFetches) : \A o \in {"notok", "throw"} :
             PollResume(i, o) =>
                 /\ UNCHANGED <<displayedMessageIds, chatDisplay, lastMessageCount>>
                 /\ ~isPolling'
                 /\ \A s \in Sends :
                       histFetches[i].owner = s =>
                           sends' = [sends EXCEPT ![s].pc = "done"] ]_vars
    /\ [](\A k \in 1..polledLen :
             history[k].role \in {"assistant", "human"} =>
                 /\ history[k].id \in displayedMessageIds
                 /\ history[k].id \in Rendered(chatDisplay))

\* The poll a send triggered has failed and returned, the guard is free, and
\* the turn's assistant entry, which nothing prevents from being rendered,
\* is still to be rendered by a later poll.
C11_Witness ==
    \E s \in Sends :
        /\ sends[s].pc = "done" /\ sends[s].trig = "started"
        /\ IdOf(s, "assistant") \notin displayedMessageIds
        /\ \A k \in 1..Len(history) : ~Throws(history[k])
        /\ ~isPolling

\* C12: polls render only entries whose role is assistant or human, so the
\* echo of a send stays the only entry of its user message, also after
\* polls have returned the user entry the backend recorded for it.
C12_UserMessageOnce ==
    /\ \A i \in Polled(chatDisplay) :
          /\ chatDisplay[i].ref \in 1..Len(history)
          /\ history[chatDisplay[i].ref].role \in {"assistant", "human"}
    /\ \A s \in Sends :
          sends[s].pc /= "idle" =>
              /\ Cardinality(Echoes(s)) = 1
              /\ IdOf(s, "user") \notin Rendered(chatDisplay)

\* A poll has gone through a history that holds the user entry of a send and
\* an entry of a role that is not rendered, and has rendered another entry.
C12_Witness ==
    \E s \in Sends :
        /\ IdOf(s, "user") /= NoId
        /\ polledLen >= IdOf(s, "user")
        /\ \E k \in 1..polledLen : history[k].role = "tool"
        /\ Polled(chatDisplay) /= {}

\* C13 (as claimed): when a send that got a non-empty reply returns, the
\* server id of the turn's assistant entry is among the seen ids, also when
\* a timer-driven poll was in flight as the reply arrived.
C13_TurnAbsorbedWhenSendReturns ==
    \A s \in Sends :
        (sends[s].pc = "done" /\ sends[s].outcome = "reply") =>
            /\ sends[s].trig = "started"
            /\ IdOf(s, "assistant") \in displayedMessageIds

\* The first display index of the echo of send s (0 when there is none).
EchoAt(s) ==
    IF Echoes(s) = {} THEN 0
    ELSE CHOOSE i \in Echoes(s) : \A j \in Echoes(s) : i <= j

\* C14: the echo of a send is on display from the moment its /chat request
\* is issued, and every assistant entry of the turn, the reply or a
\* synthetic failure entry, comes after it.
C14_EchoFirst ==
    \A s \in Sends :
        /\ sends[s].pc /= "idle" => EchoAt(s) /= 0
        /\ \A i \in AssistantEntries(s) \cup Synthetic(s) :
              EchoAt(s) /= 0 /\ EchoAt(s) < i

\* Two turns interleave: the echo of the second send is on display before
\* the assistant entry of the first, and both turns have their entry.
C14_Witness ==
    /\ \A s \in Sends : AssistantEntries(s) \cup Synthetic(s) /= {}
    /\ \E i \in AssistantEntries(1) : EchoAt(2) < i

\* C16: the seen ids never lose an element, and in every state they are
\* exactly the ids of the history entries that polls have rendered, all of
\* them entries of the assistant or human role.
C16_LedgerAdditiveAndExact ==
    /\ [][displayedMessageIds \subseteq displayedMessageIds']_vars
    /\ [](/\ displayedMessageIds = Rendered(chatDisplay)
          /\ \A id \in displayedMessageIds :
                /\ id \in 1..Len(history)
                /\ history[id].role \in {"assistant", "human"})

\* Two ids are in the ledger, and polls have gone through entries of the
\* user and tool roles, whose ids are not.
C16_Witness ==
    /\ Cardinality(displayedMessageIds) >= 2
    /\ \E k \in 1..polledLen : history[k].role = "tool"
    /\ \E k \in 1..polledLen : history[k].role = "user"

IsPrefix(a, b) == Len(a) <= Len(b) /\ SubSeq(b, 1, Len(a)) = a

\* C17: no step removes, changes or reorders a message entry (only typing
\* placeholders leave the display), and the entries one poll cycle renders
\* are appended in the order of the history the backend returned.
C17_AppendOnlyInOrder ==
    [][ /\ IsPrefix(Transcript, Transcript')
        /\ \A i \in 1..Len(histFetches) :
              PollResume(i, "ok") =>
                  LET new == SubSeq(Transcript', Len(Transcript) + 1,
                                    Len(Transcript'))
                  IN  \A a, b \in 1..Len(new) :
                          /\ new[a].kind = "polled"
                          /\ new[a].ref <= histFetches[i].snap
                          /\ a < b => new[a].ref < new[b].ref ]_vars

\* A typing placeholder has been removed from between message entries, and
\* two entries of the history stand side by side in the backend's order.
C17_Witness ==
    /\ \E s \in Sends : Resolved(s) /\ EchoAt(s) < Len(chatDisplay)
    /\ \E i \in 1..Len(chatDisplay) - 1 :
          /\ chatDisplay[i].kind = "polled" /\ chatDisplay[i + 1].kind = "polled"
          /\ chatDisplay[i].ref < chatDisplay[i + 1].ref
          /\ polledLen >= chatDisplay[i + 1].ref

Direct(s) == { i \in 1..Len(chatDisplay) :
                  chatDisplay[i].kind = "direct" /\ chatDisplay[i].ref = s }

\* C15: in the widget of app.js, an assistant reply rendered from the /chat
\* response is never rendered again by a poll: no turn has both an entry
\* from the direct response and an entry polled from the history with the
\* id of its assistant message.
C15_DirectReplyNotPolledAgain ==
    \A s \in Sends :
        Direct(s) /= {} =>
            \A i \in Polled(chatDisplay) :
                chatDisplay[i].ref /= IdOf(s, "assistant")

\* C19: in the widget of app.js, once no send is in flight, lastMessageCount
\* does not exceed the number of entries of the server's history.
C19_CountWithinHistory ==
    (\A s \in Sends : sends[s].pc \in {"idle", "done"}) =>
        lastMessageCount <= Len(history)

\* C18: a step of checkConnection leaves the transcript, the seen ids,
\* lastMessageCount and isPolling (and the rest of the message side) as they
\* were; a step of sendMessage or pollMessages, on every path, leaves the
\* connectivity status as it was; and a step of sendMessage does not change
\* the seen ids, and changes isPolling only by starting the poll it triggers.
C18_StateOwnership ==
    [][ /\ (\/ CheckConnection
            \/ \E n \in probes, o \in ProbeOutcomes : ProbeResume(n, o))
               => UNCHANGED syncVars
        /\ (\/ TimerPoll
            \/ PollResumes
            \/ \E t \in Texts : SendMessage(t)
            \/ \E s \in Sends, o \in ChatOutcomes : ChatResume(s, o))
               => UNCHANGED statusIndicator
        /\ \A t \in Texts :
              SendMessage(t) => UNCHANGED <<isPolling, displayedMessageIds>>
        /\ \A s \in Sends, o \in ChatOutcomes :
              ChatResume(s, o) =>
                  /\ UNCHANGED displayedMessageIds
                  /\ isPolling' /= isPolling =>
                        /\ o = "reply"
                        /\ isPolling'
                        /\ histFetches' = Append(histFetches, Fetch(s)) ]_vars

\* A probe has failed and a later one succeeded while a send failed in
\* transport, another was answered, and a poll rendered an entry.
C18_Witness ==
    /\ Len(completed) = 2 /\ ~completed[1].ok /\ completed[2].ok
    /\ statusIndicator = "online"
    /\ \E s \in Sends : sends[s].outcome = "catch"
    /\ \E s \in Sends : sends[s].pc = "done" /\ sends[s].trig = "started"
    /\ Polled(chatDisplay) /= {}

====
